---- MODULE Spec2Model ----
(***************************************************************************)
(* Form intake service of src/form.py: the /submit, /status, /submissions  *)
(* and /reset handlers over two files, the workbook submissions.xlsx (the  *)
(* record store) and counter.json (the quota counter).                     *)
(*                                                                         *)
(* Text values are sequences of one-character strings, so that the         *)
(* regular expressions, strip() and the '@' test are computed on the       *)
(* characters.  Robot types are whole strings (they are only compared and  *)
(* joined).  The seventh workbook column and the response's submitted_at   *)
(* hold the wall clock; no operation reads them back and they are left out *)
(* of the rows.                                                            *)
(*                                                                         *)
(* Request bodies are JSON null or a JSON object whose name, phone, email  *)
(* and school_name values, when present, are strings, and whose            *)
(* selected_robots value is a list of strings or a string.                 *)
(***************************************************************************)
EXTENDS Integers, Sequences, FiniteSets, TLC

VARIABLES
    excel_file,     \* submissions.xlsx: [exists, rows]; rows are the sheet rows 2..max_row
    counter_file,   \* counter.json: [exists, count, max_submissions]
    req,            \* the request the last handler call served
    resp,           \* the response that call returned
    issued,         \* history: ids returned by accepted submits, in order
    accepted,       \* history: submits accepted since the last successful reset
    prior,          \* history: the persisted count when the last call began
    calls,          \* SpecConc: per caller, the handler call in progress and its locals
    overlapped      \* history: some call began while another was in progress

vars == <<excel_file, counter_file, req, resp, issued, accepted, prior, calls, overlapped>>

----------------------------------------------------------------------------
(* Program constants *)

\* update_counter writes it, get_counter defaults to it
MaxSubmissions == 10

\* reset_counter compares the password with it
ResetSecret == <<"2","5","4","8","5","6","5","0">>

allowed_robots == <<"Cleaning Robot", "Security Robot", "Delivery Robot">>

required_fields == <<"name", "phone", "school_name", "selected_robots">>

Letters ==
    {"A","B","C","D","E","F","G","H","I","J","K","L","M",
     "N","O","P","Q","R","S","T","U","V","W","X","Y","Z",
     "a","b","c","d","e","f","g","h","i","j","k","l","m",
     "n","o","p","q","r","s","t","u","v","w","x","y","z"}

Digits == {"0","1","2","3","4","5","6","7","8","9"}

\* the characters \s and str.strip() treat as white space (ASCII ones)
Whitespace == {" ", "\t", "\n", "\r", "\f"}

----------------------------------------------------------------------------
(* Bounds of the model *)

\* Spec: workbook rows beyond which no further submit is issued
MaxRows == 11

\* SpecValidate: accepted submits per run
MaxNew == 1

----------------------------------------------------------------------------
(* Pure helpers: the library calls the handlers make *)

Range(s) == {s[i] : i \in 1..Len(s)}

\* name_pattern.match(s): ^[A-Za-z\s]+$ ; a final "\n" is in the class already
name_pattern_match(s) ==
    /\ Len(s) >= 1
    /\ \A i \in 1..Len(s) : s[i] \in Letters \cup Whitespace

\* phone_pattern.match(s): ^[0-9]{8}$ ; "$" also matches before one final "\n"
phone_pattern_match(s) ==
    \/ /\ Len(s) = 8
       /\ \A i \in 1..8 : s[i] \in Digits
    \/ /\ Len(s) = 9
       /\ \A i \in 1..8 : s[i] \in Digits
       /\ s[9] = "\n"

RECURSIVE lstrip(_)
lstrip(s) ==
    IF s # <<>> /\ Head(s) \in Whitespace THEN lstrip(Tail(s)) ELSE s

RECURSIVE rstrip(_)
rstrip(s) ==
    IF s # <<>> /\ s[Len(s)] \in Whitespace
    THEN rstrip(SubSeq(s, 1, Len(s) - 1))
    ELSE s

\* str.strip()
strip(s) == rstrip(lstrip(s))

\* '@' in email
contains_at(s) == \E i \in 1..Len(s) : s[i] = "@"

\* ', '.join(selected_robots)
RECURSIVE join(_)
join(l) ==
    IF Len(l) <= 1 THEN l
    ELSE <<Head(l), ", ">> \o join(Tail(l))

----------------------------------------------------------------------------
(* Request bodies *)

\* data.get(field): the value, or None (here the empty text) when the key is absent
get(data, field) == IF field \in data.keys THEN data[field] ELSE <<>>

\* Python truthiness of data.get(field): None, "" and [] are false
truthy(data, field) == field \in data.keys /\ data[field] # <<>>

\* "not data": no body (null) or the empty object
no_data(data) == data.json = "null" \/ data.keys = {}

----------------------------------------------------------------------------
(* The counter store *)

\* get_counter(): (count, max_submissions) read from counter.json, or the defaults
get_counter(cf) ==
    IF cf.exists
    THEN [count |-> cf.count, max_submissions |-> cf.max_submissions]
    ELSE [count |-> 0, max_submissions |-> MaxSubmissions]

\* a plausible slip: the count wraps to 0 when it reaches the maximum
update_counter_wrapping(count) ==
    [exists |-> TRUE, count |-> count % MaxSubmissions, max_submissions |-> MaxSubmissions]

\* update_counter(count): the content of counter.json after the write
update_counter(count) ==
    [exists |-> TRUE, count |-> count, max_submissions |-> MaxSubmissions]

----------------------------------------------------------------------------
(* The record store *)

\* initialize_excel_file(): a workbook holding the header row alone, if none exists
initialize_excel_file(xf) ==
    IF xf.exists THEN xf ELSE [exists |-> TRUE, rows |-> <<>>]

\* ws.max_row: the header row plus the data rows
max_row(xf) == Len(xf.rows) + 1

\* next_row = ws.max_row + 1
next_row(xf) == max_row(xf) + 1

\* a plausible slip: the header row is not subtracted
submission_id_with_header(row) == row

\* submission_id = next_row - 1
submission_id(row) == row - 1

\* a plausible slip: the cells are set in a new sheet, not in the loaded one
write_row_in_new_sheet(rows, r, row) == <<row>>

\* ws.cell(row=r, ...) for the six columns of sheet row r (data row r - 1)
write_row(rows, r, row) ==
    IF r - 1 = Len(rows) + 1
    THEN Append(rows, row)
    ELSE [i \in 1..Len(rows) |-> IF i = r - 1 THEN row ELSE rows[i]]

\* isinstance(selected_robots, list) ? ', '.join(selected_robots) : selected_robots
robots_str(selected_robots, is_list) ==
    IF is_list THEN join(selected_robots) ELSE selected_robots

\* a plausible slip: the workbook is not saved after the cells are set
add_submission_unsaved(xf, name, phone, email, school_name, selected_robots, is_list) ==
    initialize_excel_file(xf)

\* add_submission_to_excel(...): the workbook after wb.save
add_submission_to_excel(xf, name, phone, email, school_name, selected_robots, is_list) ==
    LET wb == initialize_excel_file(xf)
        r  == next_row(wb)
    IN  [exists |-> TRUE,
         rows   |-> write_row(wb.rows, r,
                       [id              |-> submission_id(r),
                        name            |-> name,
                        phone           |-> phone,
                        email           |-> email,
                        school_name     |-> school_name,
                        selected_robots |-> robots_str(selected_robots, is_list)])]

\* a plausible slip: the id is taken from the quota counter
returned_submission_id_from_counter(xf) == get_counter(counter_file).count + 1

\* the submission_id add_submission_to_excel returns
returned_submission_id(xf) == submission_id(next_row(initialize_excel_file(xf)))

\* get_all_submissions(): every data row whose first cell is set, in sheet order
get_all_submissions(xf) ==
    IF ~xf.exists THEN <<>> ELSE xf.rows

----------------------------------------------------------------------------
(* Responses *)

NoCounter ==
    [count |-> 0, max_submissions |-> 0, submissions_remaining |-> 0,
     is_limit_reached |-> FALSE]

NoSubmission ==
    [id |-> 0, name |-> <<>>, phone |-> <<>>, email |-> <<>>,
     school_name |-> <<>>, selected_robots |-> <<>>]

\* a response body without 'counter', 'submission' and 'submissions'
message_response(status, success, message) ==
    [status |-> status, has |-> {"success", "message"}, success |-> success,
     message |-> message, counter |-> NoCounter, submission |-> NoSubmission,
     submissions |-> <<>>]

\* a plausible slip: the limit itself is still admitted
limit_reached_above(count, max_submissions) == count > max_submissions

\* the quota test of submit_form
limit_reached(count, max_submissions) == count >= max_submissions

\* the 'counter' object of the 403 response: is_limit_reached is the literal True
limit_counter(count, max_submissions) ==
    [count |-> count, max_submissions |-> max_submissions,
     submissions_remaining |-> max_submissions - count,
     is_limit_reached |-> TRUE]

\* a plausible slip: the limit is reported only once it is exceeded
counter_object_above(count, max_submissions) ==
    [count |-> count, max_submissions |-> max_submissions,
     submissions_remaining |-> max_submissions - count,
     is_limit_reached |-> (count > max_submissions)]

\* the 'counter' object of the 201, /status and /submissions responses
counter_object(count, max_submissions) ==
    [count |-> count, max_submissions |-> max_submissions,
     submissions_remaining |-> max_submissions - count,
     is_limit_reached |-> (count >= max_submissions)]

\* the 'counter' object of the /reset response: four literals
reset_counter_object ==
    [count |-> 0, max_submissions |-> 10, submissions_remaining |-> 10,
     is_limit_reached |-> FALSE]

----------------------------------------------------------------------------
(* Validation of the submit body, in the order of the handler *)

\* a plausible slip: the last missing field is reported
first_missing_last(data) ==
    LET bad == {i \in 1..Len(required_fields) : ~truthy(data, required_fields[i])}
    IN  IF bad = {} THEN 0 ELSE CHOOSE i \in bad : \A j \in bad : i >= j

\* the first of required_fields with "not data.get(field)", 0 when there is none
first_missing(data) ==
    LET bad == {i \in 1..Len(required_fields) : ~truthy(data, required_fields[i])}
    IN  IF bad = {} THEN 0 ELSE CHOOSE i \in bad : \A j \in bad : i <= j

\* a plausible slip: the last robot that is not allowed is reported
first_invalid_robot_last(selected_robots) ==
    LET bad == {i \in 1..Len(selected_robots) :
                    selected_robots[i] \notin Range(allowed_robots)}
    IN  IF bad = {} THEN 0 ELSE CHOOSE i \in bad : \A j \in bad : i >= j

\* the first robot of the list that is not in allowed_robots, 0 when there is none
first_invalid_robot(selected_robots) ==
    LET bad == {i \in 1..Len(selected_robots) :
                    selected_robots[i] \notin Range(allowed_robots)}
    IN  IF bad = {} THEN 0 ELSE CHOOSE i \in bad : \A j \in bad : i <= j

\* the message of the 400 response submit_form returns for data, <<>> when every check passes
validation_error(data) ==
    IF no_data(data)
    THEN <<"No data provided">>
    ELSE IF first_missing(data) # 0
    THEN <<"Missing required field: ", required_fields[first_missing(data)]>>
    ELSE IF ~name_pattern_match(data.name)
    THEN <<"Name must contain only letters and spaces">>
    ELSE IF ~phone_pattern_match(data.phone)
    THEN <<"Phone number must be exactly 8 digits">>
    ELSE IF strip(get(data, "email")) # <<>> /\ ~contains_at(strip(get(data, "email")))
    THEN <<"Email must contain @ symbol">>
    ELSE IF ~data.robots_is_list \/ Len(data.selected_robots) = 0
    THEN <<"Please select at least one robot type">>
    ELSE IF first_invalid_robot(data.selected_robots) # 0
    THEN <<"Invalid robot type selected: ",
           data.selected_robots[first_invalid_robot(data.selected_robots)]>>
    ELSE <<>>

----------------------------------------------------------------------------
(* Requests *)

\* request.json / request.get_json() of a request without a body
NullBody ==
    [json |-> "null", keys |-> {}, name |-> <<>>, phone |-> <<>>, email |-> <<>>,
     school_name |-> <<>>, selected_robots |-> <<>>, robots_is_list |-> TRUE,
     password |-> <<>>]

Absent == [has |-> FALSE, v |-> <<>>, is_list |-> TRUE]

Text(v) == [has |-> TRUE, v |-> v, is_list |-> FALSE]

List(v) == [has |-> TRUE, v |-> v, is_list |-> TRUE]

\* the JSON object with the given members (an Absent member has no key)
SubmitBody(name, phone, email, school_name, selected_robots) ==
    [json |-> "object",
     keys |-> {k \in {"name", "phone", "email", "school_name", "selected_robots"} :
                  [name |-> name, phone |-> phone, email |-> email,
                   school_name |-> school_name,
                   selected_robots |-> selected_robots][k].has},
     name |-> name.v, phone |-> phone.v, email |-> email.v,
     school_name |-> school_name.v, selected_robots |-> selected_robots.v,
     robots_is_list |-> selected_robots.is_list, password |-> <<>>]

ResetBody(password) ==
    [NullBody EXCEPT !.json = "object",
                     !.keys = IF password.has THEN {"password"} ELSE {},
                     !.password = password.v]

GoodName == <<"A", " ", "b">>
GoodPhone == <<"1","2","3","4","5","6","7","8">>
GoodEmail == <<"a", "@", "b">>
GoodSchool == <<"S">>

NameOpts == {Absent, Text(<<>>), Text(GoodName), Text(<<"A", "3">>)}

PhoneOpts ==
    {Absent, Text(GoodPhone), Text(SubSeq(GoodPhone, 1, 7)),
     Text(GoodPhone \o <<"\n">>), Text(SubSeq(GoodPhone, 1, 7) \o <<"a">>)}

EmailOpts == {Absent, Text(<<" ">>), Text(GoodEmail), Text(<<"a", "b">>)}

SchoolOpts == {Absent, Text(GoodSchool)}

RobotsOpts ==
    {Absent, List(<<>>), List(<<"Cleaning Robot">>),
     List(<<"Security Robot", "Delivery Robot">>), List(<<"Flying Robot">>),
     List(<<"Delivery Robot", "cleaning robot", "Flying Robot">>),
     Text(<<"C", "R">>)}

\* the submit bodies of SpecValidate
AllPayloads ==
    {NullBody} \cup
    {SubmitBody(n, p, e, s, r) :
        n \in NameOpts, p \in PhoneOpts, e \in EmailOpts, s \in SchoolOpts, r \in RobotsOpts}

BasePayload ==
    SubmitBody(Text(GoodName), Text(GoodPhone), Text(GoodEmail), Text(GoodSchool),
               List(<<"Cleaning Robot">>))

\* the submit bodies of Spec: one accepted body, and one body per way of failing
Payloads ==
    {BasePayload, NullBody,
     SubmitBody(Absent, Absent, Absent, Absent, Absent),
     SubmitBody(Text(GoodName), Text(GoodPhone), Absent, Absent, List(<<"Cleaning Robot">>)),
     SubmitBody(Text(<<"A", "3">>), Text(GoodPhone), Absent, Text(GoodSchool),
                List(<<"Cleaning Robot">>)),
     SubmitBody(Text(GoodName), Text(SubSeq(GoodPhone, 1, 7)), Absent, Text(GoodSchool),
                List(<<"Cleaning Robot">>)),
     SubmitBody(Text(GoodName), Text(GoodPhone), Text(<<"a", "b">>), Text(GoodSchool),
                List(<<"Cleaning Robot">>)),
     SubmitBody(Text(GoodName), Text(GoodPhone), Absent, Text(GoodSchool),
                List(<<"Flying Robot">>))}

\* the reset bodies: no body, {}, and a password that is right, wrong or empty
ResetBodies ==
    {NullBody, ResetBody(Absent), ResetBody(Text(ResetSecret)),
     ResetBody(Text(<<"w", "r", "o", "n", "g">>)), ResetBody(Text(<<>>))}

NoResponse ==
    [status |-> 0, has |-> {}, success |-> FALSE, message |-> <<>>,
     counter |-> NoCounter, submission |-> NoSubmission, submissions |-> <<>>]

----------------------------------------------------------------------------
(* The handlers *)

\* POST /submit
submit_form(data) ==
    LET c == get_counter(counter_file)
        count == c.count
        max_submissions == c.max_submissions
    IN  /\ req' = [op |-> "submit", data |-> data]
        /\ prior' = count
        /\ IF limit_reached(count, max_submissions)
           THEN /\ resp' = [message_response(403, FALSE,
                               <<"Form submission limit reached. No more submissions allowed.">>)
                            EXCEPT !.has = @ \cup {"counter"},
                                   !.counter = limit_counter(count, max_submissions)]
                /\ UNCHANGED <<excel_file, counter_file, issued, accepted, calls, overlapped>>
           ELSE IF validation_error(data) # <<>>
           THEN /\ resp' = message_response(400, FALSE, validation_error(data))
                /\ UNCHANGED <<excel_file, counter_file, issued, accepted, calls, overlapped>>
           ELSE /\ excel_file' = add_submission_to_excel(excel_file, data.name, data.phone,
                                    get(data, "email"), data.school_name,
                                    data.selected_robots, data.robots_is_list)
                /\ counter_file' = update_counter(count + 1)
                /\ resp' = [message_response(201, TRUE, <<"Form submitted successfully!">>)
                            EXCEPT !.has = @ \cup {"submission", "counter"},
                                   !.submission =
                                       [id |-> returned_submission_id(excel_file),
                                        name |-> data.name,
                                        phone |-> data.phone,
                                        email |-> get(data, "email"),
                                        school_name |-> data.school_name,
                                        selected_robots |-> data.selected_robots],
                                   !.counter = counter_object(count + 1, max_submissions)]
                /\ issued' = Append(issued, returned_submission_id(excel_file))
                /\ accepted' = accepted + 1
                /\ UNCHANGED <<calls, overlapped>>

\* a plausible slip: the counter file is created with the defaults on first access
get_status_creating ==
    LET c == get_counter(counter_file)
    IN  /\ req' = [op |-> "status", data |-> NullBody]
        /\ prior' = c.count
        /\ resp' = [NoResponse EXCEPT !.status = 200, !.has = {"counter"},
                       !.counter = counter_object(c.count, c.max_submissions)]
        /\ counter_file' = update_counter(c.count)
        /\ UNCHANGED <<excel_file, issued, accepted, calls, overlapped>>

\* GET /status
get_status ==
    LET c == get_counter(counter_file)
    IN  /\ req' = [op |-> "status", data |-> NullBody]
        /\ prior' = c.count
        /\ resp' = [NoResponse EXCEPT !.status = 200, !.has = {"counter"},
                       !.counter = counter_object(c.count, c.max_submissions)]
        /\ UNCHANGED <<excel_file, counter_file, issued, accepted, calls, overlapped>>

\* GET /submissions
get_submissions ==
    LET submissions == get_all_submissions(excel_file)
        c == get_counter(counter_file)
    IN  /\ req' = [op |-> "submissions", data |-> NullBody]
        /\ prior' = c.count
        /\ resp' = [NoResponse EXCEPT !.status = 200, !.has = {"submissions", "counter"},
                       !.submissions = submissions,
                       !.counter = counter_object(c.count, c.max_submissions)]
        /\ UNCHANGED <<excel_file, counter_file, issued, accepted, calls, overlapped>>

\* a plausible slip: only an empty password is refused
incorrect_password_if_empty(data) == data.password = <<>>

\* a plausible slip: the comparison is inverted
incorrect_password_inverted(data) == data.password = ResetSecret

\* data['password'] != '25485650'
incorrect_password(data) == data.password # ResetSecret

\* POST /reset
reset_counter(data) ==
    /\ req' = [op |-> "reset", data |-> data]
    /\ prior' = get_counter(counter_file).count
    /\ IF no_data(data) \/ "password" \notin data.keys
       THEN /\ resp' = message_response(400, FALSE, <<"Password is required">>)
            /\ UNCHANGED <<excel_file, counter_file, issued, accepted, calls, overlapped>>
       ELSE IF incorrect_password(data)
       THEN /\ resp' = message_response(401, FALSE, <<"Incorrect password">>)
            /\ UNCHANGED <<excel_file, counter_file, issued, accepted, calls, overlapped>>
       ELSE /\ counter_file' = update_counter(0)
            /\ resp' = [message_response(200, TRUE, <<"Counter reset successfully!">>)
                        EXCEPT !.has = @ \cup {"counter"},
                               !.counter = reset_counter_object]
            /\ accepted' = 0
            /\ UNCHANGED <<excel_file, issued, calls, overlapped>>

----------------------------------------------------------------------------
(* Spec: the service from a fresh data directory, one call at a time *)

NoExcel == [exists |-> FALSE, rows |-> <<>>]

NoCounterFile == [exists |-> FALSE, count |-> 0, max_submissions |-> 0]

Init ==
    /\ excel_file = NoExcel
    /\ counter_file = NoCounterFile
    /\ req = [op |-> "none", data |-> NullBody]
    /\ resp = NoResponse
    /\ issued = <<>>
    /\ accepted = 0
    /\ prior = 0
    /\ calls = <<>>
    /\ overlapped = FALSE

Submit == \E data \in Payloads : Len(excel_file.rows) < MaxRows /\ submit_form(data)

Reset == \E data \in ResetBodies : reset_counter(data)

Next == Submit \/ get_status \/ get_submissions \/ Reset

Spec == Init /\ [][Next]_vars

----------------------------------------------------------------------------
(* SpecValidate: submit on every body of AllPayloads, from the states that *)
(* n accepted submits of BasePayload leave, up to the closing of the gate  *)

\* the workbook after n accepted submits of BasePayload
RECURSIVE excel_after(_)
excel_after(n) ==
    IF n = 0 THEN NoExcel
    ELSE add_submission_to_excel(excel_after(n - 1), BasePayload.name, BasePayload.phone,
             get(BasePayload, "email"), BasePayload.school_name,
             BasePayload.selected_robots, BasePayload.robots_is_list)

InitValidate ==
    \E n \in (MaxSubmissions - MaxNew)..MaxSubmissions :
        /\ excel_file = excel_after(n)
        /\ counter_file = update_counter(n)
        /\ req = [op |-> "none", data |-> NullBody]
        /\ resp = NoResponse
        /\ issued = [i \in 1..n |-> i]
        /\ accepted = n
        /\ prior = n
        /\ calls = <<>>
        /\ overlapped = FALSE

\* A rejected submit leaves both files as they were, so the states a run reaches
\* by submitting again after a rejection are those it reaches without the
\* rejected call: a run stops submitting at its first rejection.
SubmitAny == \E data \in AllPayloads : resp.status \notin {400, 403} /\ submit_form(data)

NextValidate == SubmitAny \/ get_status \/ get_submissions

SpecValidate == InitValidate /\ [][NextValidate]_vars

----------------------------------------------------------------------------
(* Vocabulary of the claims *)

\* the persisted counter, as a call reads it
Count == get_counter(counter_file).count

Max == get_counter(counter_file).max_submissions

\* the quota gate
Gate == IF Count >= Max THEN "CLOSED" ELSE "OPEN"

\* a body that meets the data model of a Submission: name of letters and white
\* space, phone of exactly 8 digits, a school name, an email that is absent,
\* blank or holds '@', a non-empty list of allowed robot types
ValidPayload(data) ==
    /\ data.json = "object"
    /\ {"name", "phone", "school_name", "selected_robots"} \subseteq data.keys
    /\ data.name # <<>> /\ Range(data.name) \subseteq Letters \cup Whitespace
    /\ Len(data.phone) = 8 /\ Range(data.phone) \subseteq Digits
    /\ data.school_name # <<>>
    /\ \/ "email" \notin data.keys
       \/ Range(data.email) \subseteq Whitespace
       \/ "@" \in Range(data.email)
    /\ data.robots_is_list
    /\ data.selected_robots # <<>>
    /\ Range(data.selected_robots) \subseteq Range(allowed_robots)

\* the step serves a submit (every handler records its request in req)
IsSubmit == req'.op = "submit"

IsReset == req'.op = "reset"

\* the step's reset request carries the fixed secret
RightPassword == "password" \in req'.data.keys /\ req'.data.password = ResetSecret

----------------------------------------------------------------------------
(* C1: in every one-at-a-time run from the empty store, a submit of a valid *)
(* body made while count < max returns 201 success with an id greater than  *)
(* every id issued before (1 when none was), and the persisted count grows  *)
(* by exactly 1.                                                            *)
C1_ValidSubmitAccepted ==
    [][(IsSubmit /\ ValidPayload(req'.data) /\ Count < Max) =>
          /\ resp'.status = 201 /\ resp'.success
          /\ "submission" \in resp'.has
          /\ \A i \in 1..Len(issued) : resp'.submission.id > issued[i]
          /\ (issued = <<>> => resp'.submission.id = 1)
          /\ issued' = Append(issued, resp'.submission.id)
          /\ Count' = Count + 1]_vars

\* an accepted submit after a reset: its id follows the ten issued before it
C1_Witness ==
    /\ req.op = "submit" /\ ValidPayload(req.data)
    /\ resp.status = 201
    /\ resp.submission.id = MaxSubmissions + 1
    /\ Count = 1

----------------------------------------------------------------------------
(* C2: a submit made while count >= max returns 403 (QuotaExceeded) for    *)
(* every body, valid, invalid or absent; the response carries the counter  *)
(* as persisted, and the workbook and the counter file are left unchanged. *)
C2_ClosedSubmitRejected ==
    [][(IsSubmit /\ Count >= Max) =>
          /\ resp'.status = 403 /\ ~resp'.success
          /\ "counter" \in resp'.has
          /\ resp'.counter.count = Count
          /\ resp'.counter.max_submissions = Max
          /\ "submission" \notin resp'.has
          /\ excel_file' = excel_file
          /\ counter_file' = counter_file]_vars

\* a body that is no valid submission, refused for the quota
C2_Witness ==
    /\ req.op = "submit" /\ ~ValidPayload(req.data) /\ req.data.json = "object"
    /\ prior >= MaxSubmissions
    /\ resp.status = 403

----------------------------------------------------------------------------
(* C3: counting the submits accepted since the start or the last successful *)
(* reset, a valid submit is accepted while fewer than 10 were; the response *)
(* of the 10th, and of no earlier one, reports is_limit_reached with        *)
(* submissions_remaining 0; once 10 were accepted every submit returns 403  *)
(* and adds no row.                                                         *)
C3_TenThenClosed ==
    [][IsSubmit =>
          /\ (accepted < MaxSubmissions /\ ValidPayload(req'.data)) =>
                /\ resp'.status = 201
                /\ accepted' = accepted + 1
                /\ resp'.counter.is_limit_reached = (accepted' = MaxSubmissions)
                /\ (accepted' = MaxSubmissions) = (resp'.counter.submissions_remaining = 0)
          /\ accepted >= MaxSubmissions =>
                /\ resp'.status = 403
                /\ accepted' = accepted
                /\ excel_file' = excel_file]_vars

\* the 11th valid submit of a run without reset, refused
C3_Witness ==
    /\ req.op = "submit" /\ ValidPayload(req.data)
    /\ accepted = MaxSubmissions
    /\ Len(issued) = MaxSubmissions
    /\ resp.status = 403

----------------------------------------------------------------------------
(* C4: a reset carrying the fixed secret writes count 0 and max 10 whatever *)
(* the count was, returns success with the snapshot count 0, remaining 10,  *)
(* is_limit_reached false, and leaves the gate OPEN; a valid submit that    *)
(* follows it is accepted.                                                  *)
C4_ResetReopens ==
    [][/\ (IsReset /\ RightPassword) =>
             /\ counter_file'.exists
             /\ Count' = 0 /\ Max' = 10
             /\ Gate' = "OPEN"
             /\ resp'.status = 200 /\ resp'.success
             /\ resp'.counter = [count |-> 0, max_submissions |-> 10,
                                 submissions_remaining |-> 10,
                                 is_limit_reached |-> FALSE]
             /\ excel_file' = excel_file
       /\ (req.op = "reset" /\ resp.status = 200 /\ IsSubmit /\ ValidPayload(req'.data)) =>
             resp'.status = 201]_vars

\* a successful reset of a closed gate
C4_Witness ==
    /\ req.op = "reset" /\ resp.status = 200
    /\ prior >= MaxSubmissions
    /\ Count = 0

----------------------------------------------------------------------------
(* C5: a reset whose password is supplied and differs from the fixed secret *)
(* returns 401 (AuthError) and leaves the counter file and the workbook     *)
(* unchanged, so a CLOSED gate stays CLOSED.                                *)
C5_WrongPasswordRefused ==
    [][(IsReset /\ "password" \in req'.data.keys /\ req'.data.password # ResetSecret) =>
          /\ resp'.status = 401 /\ ~resp'.success
          /\ resp'.message = <<"Incorrect password">>
          /\ counter_file' = counter_file
          /\ excel_file' = excel_file
          /\ Gate' = Gate]_vars

\* a wrong password tried on a closed gate
C5_Witness ==
    /\ req.op = "reset" /\ req.data.password = <<"w", "r", "o", "n", "g">>
    /\ resp.status = 401
    /\ Gate = "CLOSED"

----------------------------------------------------------------------------
(* C6: the gate goes from OPEN to CLOSED exactly in the steps that accept a *)
(* submit whose incremented count equals max, and from CLOSED to OPEN only  *)
(* in a reset carrying the fixed secret; a rejected submit, a status, a     *)
(* submissions listing and a refused reset leave the gate as it was.        *)
C6_GateTransitions ==
    [][/\ (Gate = "OPEN" /\ Gate' = "CLOSED") <=>
             (IsSubmit /\ resp'.status = 201 /\ resp'.counter.count = Max')
       /\ (Gate = "CLOSED" /\ Gate' = "OPEN") => (IsReset /\ RightPassword)
       /\ (IsSubmit /\ resp'.status # 201) => Gate' = Gate
       /\ req'.op \in {"status", "submissions"} => Gate' = Gate
       /\ (IsReset /\ ~RightPassword) => Gate' = Gate]_vars

\* the accepted submit that closes the gate
C6_Witness ==
    /\ req.op = "submit" /\ resp.status = 201
    /\ prior = MaxSubmissions - 1
    /\ Gate = "CLOSED"

----------------------------------------------------------------------------
(* The errors of the specification, read off a submit response *)

ErrorOf(r) ==
    IF r.status = 201 THEN <<"Accepted">>
    ELSE IF r.status = 403 THEN <<"QuotaExceeded">>
    ELSE IF r.message = <<"No data provided">> THEN <<"NoData">>
    ELSE IF r.message[1] = "Missing required field: " THEN <<"MissingField", r.message[2]>>
    ELSE IF r.message = <<"Name must contain only letters and spaces">> THEN <<"InvalidName">>
    ELSE IF r.message = <<"Phone number must be exactly 8 digits">> THEN <<"InvalidPhone">>
    ELSE IF r.message = <<"Email must contain @ symbol">> THEN <<"InvalidEmail">>
    ELSE IF r.message = <<"Please select at least one robot type">> THEN <<"InvalidRobotType">>
    ELSE IF r.message[1] = "Invalid robot type selected: " THEN <<"InvalidRobotType">>
    ELSE <<"Other">>

\* the checks the claim lists after the quota, in its order, each with its error
ClaimedChecks(data) ==
    <<[fails |-> ~truthy(data, "name"), error |-> <<"MissingField", "name">>],
      [fails |-> ~truthy(data, "phone"), error |-> <<"MissingField", "phone">>],
      [fails |-> ~truthy(data, "school_name"), error |-> <<"MissingField", "school_name">>],
      [fails |-> ~truthy(data, "selected_robots"),
       error |-> <<"MissingField", "selected_robots">>],
      [fails |-> ~name_pattern_match(get(data, "name")), error |-> <<"InvalidName">>],
      [fails |-> ~phone_pattern_match(get(data, "phone")), error |-> <<"InvalidPhone">>],
      [fails |-> LET email == strip(get(data, "email"))
                 IN  email # <<>> /\ "@" \notin Range(email),
       error |-> <<"InvalidEmail">>],
      [fails |-> \/ ~data.robots_is_list
                 \/ get(data, "selected_robots") = <<>>
                 \/ \E i \in 1..Len(data.selected_robots) :
                        \A j \in 1..Len(allowed_robots) :
                            data.selected_robots[i] # allowed_robots[j],
       error |-> <<"InvalidRobotType">>]>>

\* the error of the earliest failing check of a list, Accepted when none fails
FirstFailure(checks) ==
    IF \A i \in 1..Len(checks) : ~checks[i].fails
    THEN <<"Accepted">>
    ELSE checks[CHOOSE i \in 1..Len(checks) :
                    checks[i].fails /\ \A j \in 1..(i - 1) : ~checks[j].fails].error

\* the claim's list with the test of an empty body put first
AmendedChecks(data) ==
    <<[fails |-> data.json = "null" \/ data.keys = {}, error |-> <<"NoData">>]>>
        \o ClaimedChecks(data)

----------------------------------------------------------------------------
----------------------------------------------------------------------------
(* C8: a submit answered 400 (any validation error) leaves the workbook and *)
(* the counter file unchanged; a submit answered with success has appended  *)
(* exactly one row, holding the id it returns and the fields of the body,   *)
(* and has raised the persisted count by 1.                                 *)
C8_NoPartialSuccess ==
    [][IsSubmit =>
          /\ resp'.status = 400 =>
                /\ ~resp'.success
                /\ excel_file' = excel_file
                /\ counter_file' = counter_file
          /\ resp'.success =>
                /\ Len(excel_file'.rows) = Len(excel_file.rows) + 1
                /\ SubSeq(excel_file'.rows, 1, Len(excel_file.rows)) = excel_file.rows
                /\ LET row == excel_file'.rows[Len(excel_file'.rows)]
                   IN  /\ row.id = resp'.submission.id
                       /\ row.name = req'.data.name
                       /\ row.phone = req'.data.phone
                       /\ row.email = get(req'.data, "email")
                       /\ row.school_name = req'.data.school_name
                /\ Count' = Count + 1]_vars

\* a body refused for its robot type while the gate is OPEN
C8_Witness ==
    /\ req.op = "submit" /\ resp.status = 400
    /\ resp.message = <<"Invalid robot type selected: ", "cleaning robot">>
    /\ Count = prior /\ Count < Max
    /\ Len(excel_file.rows) = Len(issued)

----------------------------------------------------------------------------
(* C9: a status and a submissions call leave the workbook and the counter  *)
(* file exactly as they were, and a call that repeats the one before it    *)
(* returns the same response.                                              *)
C9_ReadOnly ==
    [][req'.op \in {"status", "submissions"} =>
          /\ excel_file' = excel_file
          /\ counter_file' = counter_file
          /\ req.op = req'.op => resp' = resp]_vars

\* a listing of a non-empty store, on a counter that a reset has zeroed
C9_Witness ==
    /\ req.op = "submissions"
    /\ Len(resp.submissions) = MaxSubmissions
    /\ resp.counter.count = 0

----------------------------------------------------------------------------
(* C10: the counter object of every response that has one satisfies        *)
(* submissions_remaining = max_submissions - count and is_limit_reached =  *)
(* (count >= max_submissions), and its count and max_submissions are those *)
(* persisted when the call returns.                                        *)
C10_SnapshotConsistent ==
    "counter" \in resp.has =>
        /\ resp.counter.submissions_remaining =
               resp.counter.max_submissions - resp.counter.count
        /\ resp.counter.is_limit_reached =
               (resp.counter.count >= resp.counter.max_submissions)
        /\ resp.counter.count = Count
        /\ resp.counter.max_submissions = Max

\* the response of the submit that reaches the limit
C10_Witness ==
    /\ req.op = "submit" /\ resp.status = 201
    /\ resp.counter.count = MaxSubmissions
    /\ resp.counter.is_limit_reached
    /\ resp.counter.submissions_remaining = 0

----------------------------------------------------------------------------
(* C11, as claimed: every reset that does not carry the fixed secret, the   *)
(* one without a password included, is answered with the same response,     *)
(* 401 'Incorrect password'.                                                *)
C11_OneGenericRefusal ==
    [][(IsReset /\ ~RightPassword) =>
          /\ resp'.status = 401
          /\ resp'.message = <<"Incorrect password">>]_vars

(* C11, amended: every reset that supplies a password other than the fixed  *)
(* secret is answered with one and the same response, 401 'Incorrect        *)
(* password', whatever the password; a reset that supplies none (no body,   *)
(* the body {}) is answered with another one, 400 'Password is required'.   *)
(* Both carry success false and a message only, and change no file.         *)
C11_RefusedResets ==
    [][(IsReset /\ ~RightPassword) =>
          /\ ~resp'.success
          /\ resp'.has = {"success", "message"}
          /\ IF "password" \in req'.data.keys
             THEN resp'.status = 401 /\ resp'.message = <<"Incorrect password">>
             ELSE resp'.status = 400 /\ resp'.message = <<"Password is required">>
          /\ counter_file' = counter_file
          /\ excel_file' = excel_file]_vars

\* a reset with the body {} on a closed gate, answered 400
C11_Witness ==
    /\ req.op = "reset" /\ req.data.json = "object" /\ req.data.keys = {}
    /\ resp.status = 400
    /\ Gate = "CLOSED"

----------------------------------------------------------------------------
(* C13: one call at a time, the rows of the workbook carry the ids 1..n in  *)
(* sheet order in every state; every step keeps the rows it found, with     *)
(* their ids and fields, and adds at most one row after them; a submissions *)
(* call returns all the rows in sheet order.                                *)
C13_AppendOnlyDense ==
    /\ \A i \in 1..Len(excel_file.rows) : excel_file.rows[i].id = i
    /\ [][/\ Len(excel_file'.rows) \in {Len(excel_file.rows), Len(excel_file.rows) + 1}
          /\ SubSeq(excel_file'.rows, 1, Len(excel_file.rows)) = excel_file.rows
          /\ \A i \in 1..Len(excel_file'.rows) : excel_file'.rows[i].id = i
          /\ req'.op = "submissions" =>
                /\ "submissions" \in resp'.has
                /\ resp'.submissions = excel_file'.rows
                /\ excel_file' = excel_file]_vars

\* a listing of ten rows, the last of them unlike the nine before it
C13_Witness ==
    /\ req.op = "submissions"
    /\ Len(resp.submissions) = MaxSubmissions
    /\ resp.submissions[MaxSubmissions].id = MaxSubmissions
    /\ resp.submissions[MaxSubmissions].selected_robots =
           <<"Security Robot", ", ", "Delivery Robot">>
    /\ resp.submissions[1].selected_robots = <<"Cleaning Robot">>

----------------------------------------------------------------------------
(* C16: the id an accepted submit returns, and stores, is the number of     *)
(* rows the workbook held plus 1, whatever the counter says; a reset leaves *)
(* the workbook unchanged, so the ids issued after a reset go on from the   *)
(* number of rows ever stored.                                              *)
C16_IdFromRowCount ==
    [][/\ (IsSubmit /\ resp'.status = 201) =>
             /\ resp'.submission.id = Len(excel_file.rows) + 1
             /\ excel_file'.rows[Len(excel_file'.rows)].id = resp'.submission.id
             /\ resp'.submission.id = Len(issued) + 1
       /\ IsReset => excel_file' = excel_file]_vars

\* the first submit accepted after a reset of a full quota: the counter says 1,
\* the id is 11
C16_Witness ==
    /\ req.op = "submit" /\ resp.status = 201
    /\ accepted = 1 /\ resp.counter.count = 1
    /\ Len(excel_file.rows) = MaxSubmissions + 1
    /\ resp.submission.id = Len(excel_file.rows)
    /\ resp.submission.id # resp.counter.count

----------------------------------------------------------------------------
(* Vocabulary of C18 *)

\* the checks before the one of the robot types all pass: a body, the four
\* required members, the name, the phone, the email
EarlierChecksPass(data) ==
    FirstFailure(SubSeq(AmendedChecks(data), 1, 8)) = <<"Accepted">>

Allowed(robot) == \E j \in 1..Len(allowed_robots) : robot = allowed_robots[j]

\* a non-empty list of allowed robot types
TypesAccepted(data) ==
    /\ data.robots_is_list
    /\ Len(data.selected_robots) >= 1
    /\ \A i \in 1..Len(data.selected_robots) : Allowed(data.selected_robots[i])

\* the first element, in sequence order, that is no allowed robot type
FirstOffending(seq) ==
    seq[CHOOSE i \in 1..Len(seq) :
            ~Allowed(seq[i]) /\ \A j \in 1..(i - 1) : Allowed(seq[j])]

\* the stored text of a row is ', '.join of a non-empty list of allowed types
StoredTypesAllowed(row) ==
    /\ Len(row.selected_robots) >= 1
    /\ Len(row.selected_robots) % 2 = 1
    /\ \A i \in 1..Len(row.selected_robots) :
          IF i % 2 = 1 THEN Allowed(row.selected_robots[i])
          ELSE row.selected_robots[i] = ", "

----------------------------------------------------------------------------
(* C18, as claimed: with the gate OPEN and the earlier checks passing, a    *)
(* submit is accepted iff selected_robots is a non-empty sequence of        *)
(* allowed types, and is otherwise refused with 'Invalid robot type         *)
(* selected: ' naming the first offending element; every stored row holds   *)
(* allowed types only.                                                      *)
C18_ClaimedTypes ==
    /\ \A i \in 1..Len(excel_file.rows) : StoredTypesAllowed(excel_file.rows[i])
    /\ [][(IsSubmit /\ Count < Max /\ EarlierChecksPass(req'.data)) =>
             /\ IF TypesAccepted(req'.data)
                THEN resp'.status = 201
                ELSE /\ resp'.status = 400
                     /\ resp'.message = <<"Invalid robot type selected: ",
                                          FirstOffending(req'.data.selected_robots)>>
             /\ \A i \in 1..Len(excel_file'.rows) :
                    StoredTypesAllowed(excel_file'.rows[i])]_vars

(* C18, amended: with the gate OPEN and the earlier checks passing (they    *)
(* include selected_robots being present and not empty), a submit is        *)
(* accepted iff selected_robots is a list of allowed types; a list with     *)
(* another element is refused with 'Invalid robot type selected: ' naming   *)
(* the first offending element; a value that is no list is refused with     *)
(* 'Please select at least one robot type', naming none; every stored row   *)
(* holds allowed types only.                                                *)
C18_RobotTypes ==
    /\ \A i \in 1..Len(excel_file.rows) : StoredTypesAllowed(excel_file.rows[i])
    /\ [][(IsSubmit /\ Count < Max /\ EarlierChecksPass(req'.data)) =>
             /\ IF TypesAccepted(req'.data)
                THEN resp'.status = 201
                ELSE IF req'.data.robots_is_list
                THEN /\ resp'.status = 400
                     /\ resp'.message = <<"Invalid robot type selected: ",
                                          FirstOffending(req'.data.selected_robots)>>
                ELSE /\ resp'.status = 400
                     /\ resp'.message = <<"Please select at least one robot type">>
             /\ \A i \in 1..Len(excel_file'.rows) :
                    StoredTypesAllowed(excel_file'.rows[i])]_vars

\* a list whose second and third elements are not allowed, refused naming the second
C18_Witness ==
    /\ req.op = "submit" /\ prior < MaxSubmissions
    /\ EarlierChecksPass(req.data)
    /\ req.data.selected_robots = <<"Delivery Robot", "cleaning robot", "Flying Robot">>
    /\ resp.status = 400
    /\ resp.message[2] = "cleaning robot"


----------------------------------------------------------------------------
(* SpecConc: overlapping calls. Each handler is split at its accesses to the
   two files; a step reads or writes one file whole, and the Python between
   two accesses runs with the access that precedes it. *)

\* the callers whose requests may be in progress at the same time
Procs == {"p1", "p2"}

\* calls one caller makes
MaxCalls == 2

\* a caller between two calls, having made n calls
Idle(n) ==
    [pc |-> "idle", n |-> n, data |-> NullBody, count |-> 0,
     max_submissions |-> 0, wb |-> NoExcel]

\* bodies sent to /submit while calls overlap
ConcPayloads == {BasePayload, NullBody}

\* some other caller's request is in progress
Overlaps(p) == \E q \in Procs \ {p} : calls[q].pc # "idle"

\* a request arrives at /submit and its handler is entered
begin_submit(p, data) ==
    /\ calls[p].pc = "idle"
    /\ calls[p].n < MaxCalls
    /\ calls' = [calls EXCEPT ![p] = [@ EXCEPT !.pc = "get_counter", !.n = @ + 1,
                                               !.data = data]]
    /\ overlapped' = (overlapped \/ Overlaps(p))
    /\ UNCHANGED <<excel_file, counter_file, req, resp, issued, accepted, prior>>

\* counter.json as open(COUNTER_FILE, 'w') leaves it when nothing is written after
EmptyCounterFile == [exists |-> TRUE, count |-> 0, max_submissions |-> 0]

\* the response to a request whose handler raised
InternalServerError == [NoResponse EXCEPT !.status = 500]

\* get_counter(), the quota test and the validation of the body
read_counter(p) ==
    LET c == get_counter(counter_file)
        count == c.count
        max_submissions == c.max_submissions
        data == calls[p].data
    IN  /\ calls[p].pc = "get_counter"
        /\ IF counter_file = EmptyCounterFile
           THEN /\ req' = [op |-> "submit", data |-> data]
                /\ prior' = prior
                /\ resp' = InternalServerError
                /\ calls' = [calls EXCEPT ![p] = Idle(@.n)]
           ELSE IF limit_reached(count, max_submissions)
           THEN /\ req' = [op |-> "submit", data |-> data]
                /\ prior' = count
                /\ resp' = [message_response(403, FALSE,
                               <<"Form submission limit reached. No more submissions allowed.">>)
                            EXCEPT !.has = @ \cup {"counter"},
                                   !.counter = limit_counter(count, max_submissions)]
                /\ calls' = [calls EXCEPT ![p] = Idle(@.n)]
           ELSE IF validation_error(data) # <<>>
           THEN /\ req' = [op |-> "submit", data |-> data]
                /\ prior' = count
                /\ resp' = message_response(400, FALSE, validation_error(data))
                /\ calls' = [calls EXCEPT ![p] = Idle(@.n)]
           ELSE /\ calls' = [calls EXCEPT ![p] = [@ EXCEPT !.pc = "initialize_excel_file",
                                     !.count = count, !.max_submissions = max_submissions]]
                /\ UNCHANGED <<req, resp, prior>>
        /\ UNCHANGED <<excel_file, counter_file, issued, accepted, overlapped>>


\* initialize_excel_file(): os.path.exists(EXCEL_FILE)
excel_exists(p) ==
    /\ calls[p].pc = "initialize_excel_file"
    /\ calls' = [calls EXCEPT ![p].pc =
                    IF excel_file.exists THEN "load_workbook" ELSE "new_workbook"]
    /\ UNCHANGED <<excel_file, counter_file, req, resp, issued, accepted, prior, overlapped>>

\* initialize_excel_file(): the header-only workbook is saved over the path
new_workbook(p) ==
    /\ calls[p].pc = "new_workbook"
    /\ excel_file' = initialize_excel_file(NoExcel)
    /\ calls' = [calls EXCEPT ![p].pc = "load_workbook"]
    /\ UNCHANGED <<counter_file, req, resp, issued, accepted, prior, overlapped>>

\* add_submission_to_excel(): wb = load_workbook(EXCEL_FILE)
load_workbook(p) ==
    /\ calls[p].pc = "load_workbook"
    /\ calls' = [calls EXCEPT ![p] = [@ EXCEPT !.pc = "save", !.wb = excel_file]]
    /\ UNCHANGED <<excel_file, counter_file, req, resp, issued, accepted, prior, overlapped>>

\* add_submission_to_excel(): the row is written to wb and wb is saved over the path
save(p) ==
    LET data == calls[p].data
    IN  /\ calls[p].pc = "save"
        /\ excel_file' = add_submission_to_excel(calls[p].wb, data.name, data.phone,
                            get(data, "email"), data.school_name,
                            data.selected_robots, data.robots_is_list)
        /\ calls' = [calls EXCEPT ![p].pc = "update_counter"]
        /\ UNCHANGED <<counter_file, req, resp, issued, accepted, prior, overlapped>>

\* count += 1; update_counter(count); the 201 response
write_counter(p) ==
    LET data == calls[p].data
        count == calls[p].count + 1
        id == returned_submission_id(calls[p].wb)
    IN  /\ calls[p].pc = "update_counter"
        /\ counter_file' = update_counter(count)
        /\ req' = [op |-> "submit", data |-> data]
        /\ prior' = calls[p].count
        /\ resp' = [message_response(201, TRUE, <<"Form submitted successfully!">>)
                    EXCEPT !.has = @ \cup {"submission", "counter"},
                           !.submission =
                               [id |-> id,
                                name |-> data.name,
                                phone |-> data.phone,
                                email |-> get(data, "email"),
                                school_name |-> data.school_name,
                                selected_robots |-> data.selected_robots],
                           !.counter = counter_object(count, calls[p].max_submissions)]
        /\ issued' = Append(issued, id)
        /\ accepted' = accepted + 1
        /\ calls' = [calls EXCEPT ![p] = Idle(@.n)]
        /\ UNCHANGED <<excel_file, overlapped>>

\* POST /reset while other calls are in progress: its one file access is the write
reset_call(p, data) ==
    /\ calls[p].pc = "idle"
    /\ calls[p].n < MaxCalls
    /\ req' = [op |-> "reset", data |-> data]
    /\ prior' = get_counter(counter_file).count
    /\ calls' = [calls EXCEPT ![p].n = @ + 1]
    /\ overlapped' = (overlapped \/ Overlaps(p))
    /\ IF no_data(data) \/ "password" \notin data.keys
       THEN /\ resp' = message_response(400, FALSE, <<"Password is required">>)
            /\ UNCHANGED <<excel_file, counter_file, issued, accepted>>
       ELSE IF incorrect_password(data)
       THEN /\ resp' = message_response(401, FALSE, <<"Incorrect password">>)
            /\ UNCHANGED <<excel_file, counter_file, issued, accepted>>
       ELSE /\ counter_file' = update_counter(0)
            /\ resp' = [message_response(200, TRUE, <<"Counter reset successfully!">>)
                        EXCEPT !.has = @ \cup {"counter"},
                               !.counter = reset_counter_object]
            /\ accepted' = 0
            /\ UNCHANGED <<excel_file, issued>>

\* the data directory is empty, or holds MaxSubmissions - 1 accepted submissions
InitConc ==
    \E n \in {0, MaxSubmissions - 1} :
        /\ excel_file = IF n = 0 THEN NoExcel ELSE excel_after(n)
        /\ counter_file = IF n = 0 THEN NoCounterFile ELSE update_counter(n)
        /\ req = [op |-> "none", data |-> NullBody]
        /\ resp = NoResponse
        /\ issued = [i \in 1..n |-> i]
        /\ accepted = n
        /\ prior = n
        /\ calls = [p \in Procs |-> Idle(0)]
        /\ overlapped = FALSE

SubmitStep ==
    \E p \in Procs :
        \/ \E data \in ConcPayloads : begin_submit(p, data)
        \/ read_counter(p)
        \/ excel_exists(p)
        \/ new_workbook(p)
        \/ load_workbook(p)
        \/ save(p)
        \/ write_counter(p)

ResetCall == \E p \in Procs : \E data \in ResetBodies : reset_call(p, data)

NextConc == SubmitStep \/ ResetCall

SpecConc == InitConc /\ [][NextConc]_vars


----------------------------------------------------------------------------
(* Claims about overlapping calls *)

\* no call is in progress
Quiescent == \A p \in Procs : calls[p].pc = "idle"

\* this step is the counter write and 201 response of a submit
SubmitAccepted == accepted' = accepted + 1

\* C12 as stated: submits admitted together past the limit drive the persisted
\* count above max, i.e. once more than max submissions were accepted since the
\* last reset and every call has returned, the count exceeds max.
C12_CounterExceedsMax == (Quiescent /\ accepted > Max) => Count > Max

\* C12, amended: submits that interleave between counter read and counter write
\* each store their own read value plus one, a value that was below max when
\* read, so the persisted count never exceeds max; increments are lost instead.
C12_LostUpdates ==
    /\ [](Count <= Max)
    /\ [][SubmitAccepted => (prior' < Max /\ Count' = prior' + 1)]_vars

\* two submits admitted at max - 1 have both returned: more than max accepted,
\* the count is max
C12_Witness == Quiescent /\ overlapped /\ accepted > Max /\ Count = Max


\* C14 as stated: in every execution, overlapping ones included, no two accepted
\* submit responses carry the same id and no two stored records share an id.
C14_IdsUnique ==
    /\ \A i, j \in 1..Len(issued) : i # j => issued[i] # issued[j]
    /\ \A i, j \in 1..Len(excel_file.rows) :
           i # j => excel_file.rows[i].id # excel_file.rows[j].id


----------------------------------------------------------------------------
(* SpecFail: one call at a time, where writing counter.json can fail *)

\* a plausible slip: the write raises once the new count is in the file
failed_update_counter_after_write ==
    {update_counter(get_counter(counter_file).count + 1)}

\* update_counter(count) raises: open() fails and the file is as it was, or the
\* file was opened, and so emptied, and the write fails
failed_update_counter == {counter_file, EmptyCounterFile}

\* count += 1; update_counter(count) raises and the request is answered 500
write_counter_fails(p) ==
    /\ calls[p].pc = "update_counter"
    /\ counter_file' \in failed_update_counter
    /\ req' = [op |-> "submit", data |-> calls[p].data]
    /\ prior' = calls[p].count
    /\ resp' = InternalServerError
    /\ calls' = [calls EXCEPT ![p] = Idle(@.n)]
    /\ UNCHANGED <<excel_file, issued, accepted, overlapped>>

\* a request arrives while no other is in progress
Arrive ==
    /\ Quiescent
    /\ \E p \in Procs :
          \/ \E data \in ConcPayloads : begin_submit(p, data)
          \/ \E data \in ResetBodies : reset_call(p, data)

Proceed ==
    \E p \in Procs :
        \/ read_counter(p)
        \/ excel_exists(p)
        \/ new_workbook(p)
        \/ load_workbook(p)
        \/ save(p)
        \/ write_counter(p)

CounterWriteFails == \E p \in Procs : write_counter_fails(p)

NextFail == Arrive \/ Proceed \/ CounterWriteFails

SpecFail == InitConc /\ [][NextFail]_vars


----------------------------------------------------------------------------
(* Claims about a failing counter write *)

\* this step is wb.save of caller p's accepted submit
SaveBy(p) == calls[p].pc = "save" /\ calls'[p].pc = "update_counter"

\* this step is the failure of caller p's update_counter
CounterWriteFailedBy(p) ==
    /\ calls[p].pc = "update_counter" /\ calls'[p].pc = "idle"
    /\ resp'.status # 201

\* the last stored record is the one built from body data
LastRecordIs(xf, data) ==
    /\ Len(xf.rows) > 0
    /\ xf.rows[Len(xf.rows)].id = Len(xf.rows)
    /\ xf.rows[Len(xf.rows)].name = data.name
    /\ xf.rows[Len(xf.rows)].phone = data.phone

\* C15: in an accepted submit the record is appended while the persisted count
\* is still the one read, and only then is the counter written; when that write
\* fails the appended record stays the last stored one, the persisted count is
\* not above the one read, the call is answered 500 without 'success', and no
\* id is handed out.
C15_NoRollback ==
    [][\A p \in Procs :
          /\ SaveBy(p) =>
                /\ Len(excel_file'.rows) = Len(excel_file.rows) + 1
                /\ LastRecordIs(excel_file', calls[p].data)
                /\ counter_file' = counter_file
                /\ Count = calls[p].count
          /\ CounterWriteFailedBy(p) =>
                /\ excel_file' = excel_file
                /\ LastRecordIs(excel_file', calls[p].data)
                /\ Count = calls[p].count
                /\ Count' <= Count
                /\ resp'.status = 500
                /\ "success" \notin resp'.has /\ ~resp'.success
                /\ issued' = issued /\ accepted' = accepted]_vars

\* the tenth record is stored, its submit was answered 500, the count is nine
C15_Witness ==
    /\ req.op = "submit" /\ ValidPayload(req.data)
    /\ resp.status = 500
    /\ Len(excel_file.rows) = MaxSubmissions
    /\ LastRecordIs(excel_file, req.data)
    /\ Count = MaxSubmissions - 1
    /\ accepted = MaxSubmissions - 1


----------------------------------------------------------------------------
(* Claims about the persisted count under any interleaving *)

\* this step is the counter write and 200 response of a reset
ResetDone == req'.op = "reset" /\ resp'.status = 200 /\ calls' # calls

\* C17: under any interleaving of submit and reset calls the persisted count is
\* between 0 and max and max is 10; a step that changes counter.json is the
\* write of a successful reset, storing 0, or the write of an accepted submit,
\* storing the count that submit read, which was below max, plus 1; and as long
\* as no call began while another was in progress, the count is the number of
\* submissions accepted since the last successful reset.
C17_CountBounds ==
    /\ [](0 <= Count /\ Count <= Max /\ Max = MaxSubmissions)
    /\ [][counter_file' # counter_file =>
            \/ ResetDone /\ Count' = 0 /\ ~SubmitAccepted
            \/ /\ SubmitAccepted /\ ~ResetDone
               /\ \E p \in Procs :
                     /\ calls[p].pc = "update_counter"
                     /\ calls'[p].pc = "idle"
                     /\ 0 <= calls[p].count /\ calls[p].count < Max
                     /\ Count' = calls[p].count + 1]_vars
    /\ [](~overlapped => Count = accepted)

\* a submit that read the count before a reset writes after it: the count is
\* max although one submission was accepted since the reset
C17_Witness ==
    /\ overlapped /\ Quiescent
    /\ req.op = "submit" /\ resp.status = 201
    /\ Count = Max
    /\ accepted = 1

====
